---------------------------- MODULE Spec2Model ----------------------------
(***************************************************************************)
(* Model of rybo/video_generation/video.py: create() assembles one video   *)
(* from one Reddit post.  A text is a sequence of one-character strings;   *)
(* times are whole seconds; heights are whole rows of the frame.           *)
(***************************************************************************)
EXTENDS Integers, Sequences, FiniteSets, TLC

VARIABLES
    settings,            \* rybo.config.settings, read-only during the run
    post,                \* v.meta: the Submission (id, title, selftext, comments)
    env,                 \* what the collaborators can answer in this run
    description,         \* v.description
    thumbnail,           \* v.thumbnail
    pc,                  \* position of create()
    t,                   \* cursor: next free start offset
    duration,            \* v.duration
    clips,               \* v.clips
    newcaster_start,     \* cursor captured after the title
    current_clip_text,   \* caption buffer
    sl,                  \* selftext_line_count (next line, 1-based)
    fi,                  \* filter loop: next candidate (1-based)
    c,                   \* loop variable c of the filter loop, 0 = unbound
    accepted_comments,   \* indexes of post.comments, in acceptance order
    rejected_comments,   \* indexes of post.comments, in rejection order
    count,               \* comment loop: next accepted comment (1-based)
    ccount,              \* comment line loop: next line (1-based)
    synthesized,         \* audio paths speech.create_audio has written
    log,                 \* what the logger has recorded
    meta_json,           \* the metadata sidecar, <<>> before it is written
    ledger,              \* rows of the CSV ledger
    published            \* number of youtube.publish calls so far

vars == <<settings, post, env, description, thumbnail, pc, t, duration, clips, newcaster_start,
          current_clip_text, sl, fi, c, accepted_comments, rejected_comments,
          count, ccount, synthesized, log, meta_json, ledger, published>>

-----------------------------------------------------------------------------
(* Bounds of the model.                                                    *)

MaxCandidates == 3
MaxComments == 2

-----------------------------------------------------------------------------
(* Texts.                                                                  *)

NL == "\n"
EMOJI == "<emoji>"

Uppers == <<"A","B","C","D","E","F","G","H","I","J","K","L","M",
            "N","O","P","Q","R","S","T","U","V","W","X","Y","Z">>
Lowers == <<"a","b","c","d","e","f","g","h","i","j","k","l","m",
            "n","o","p","q","r","s","t","u","v","w","x","y","z">>

LowerChar(ch) ==
    IF \E i \in 1..Len(Uppers) : Uppers[i] = ch
    THEN Lowers[CHOOSE i \in 1..Len(Uppers) : Uppers[i] = ch]
    ELSE ch

\* str.lower()
Lower(text) == [i \in 1..Len(text) |-> LowerChar(text[i])]

\* sub in text
Contains(text, sub) ==
    \E i \in 1..(Len(text) - Len(sub) + 1) :
        SubSeq(text, i, i + Len(sub) - 1) = sub

RECURSIVE SplitLines(_)
\* str.splitlines(): the lines of a text, without a trailing empty line
SplitLines(text) ==
    IF text = <<>> THEN <<>>
    ELSE IF \E i \in 1..Len(text) : text[i] = NL
    THEN LET i == CHOOSE j \in 1..Len(text) :
                      text[j] = NL /\ \A k \in 1..(j-1) : text[k] # NL
         IN  <<SubSeq(text, 1, i - 1)>> \o SplitLines(SubSeq(text, i + 1, Len(text)))
    ELSE <<text>>

RECURSIVE JoinLines(_)
\* os.linesep.join(lines)
JoinLines(lines) ==
    IF lines = <<>> THEN <<>>
    ELSE IF Len(lines) = 1 THEN lines[1]
    ELSE lines[1] \o <<NL>> \o JoinLines(Tail(lines))

\* os.linesep.join([s for s in text.splitlines() if s])
StripBlankLines(text) ==
    JoinLines(SelectSeq(SplitLines(text), LAMBDA s : s # <<>>))

\* rybo.utils.common.give_emoji_free_text
GiveEmojiFreeText(text) == SelectSeq(text, LAMBDA ch : ch # EMOJI)

UrlScheme == <<"h","t","t","p",":","/","/">>

\* rybo.utils.common.contains_url
ContainsUrl(text) == Contains(text, UrlScheme)

Removed == <<"[","r","e","m","o","v","e","d","]">>
Deleted == <<"[","d","e","l","e","t","e","d","]">>
Covid == <<"c","o","v","i","d">>
Vaccine == <<"v","a","c","c","i","n","e">>
ZeroWidthSpace == <<"&","#","x","2","0","0","B",";">>


-----------------------------------------------------------------------------
(* The comment filter of create().                                         *)

\* len(comment) > settings.comment_length_max
TooLong(cm) == Len(cm.body) > settings.comment_length_max

\* only the "[removed]" sentinel is compared
RemovedOnly(cm) == cm.body = Removed

\* comment == "[removed]" or comment == "[deleted]"
RemovedOrDeleted(cm) == cm.body = Removed \/ cm.body = Deleted

\* "covid" in comment.lower() or "vaccine" in comment.lower()
BlockedTopic(cm) ==
    Contains(Lower(cm.body), Covid) \/ Contains(Lower(cm.body), Vaccine)

\* the text contains_url is given: emoji and blank lines taken out
Cleaned(cm) == StripBlankLines(GiveEmojiFreeText(cm.body))

\* c.stickied
Stickied(cm) == cm.stickied

\* contains_url(comment)
HasUrl(cm) == ContainsUrl(Cleaned(cm))

\* the stickied check moved ahead of the blocked-topic check
VerdictPinnedFirst(cm) ==
    IF TooLong(cm) THEN "too-long"
    ELSE IF RemovedOrDeleted(cm) THEN "removed-or-deleted"
    ELSE IF Stickied(cm) THEN "pinned"
    ELSE IF BlockedTopic(cm) THEN "blocked-topic"
    ELSE IF HasUrl(cm) THEN "contains-url"
    ELSE "accepted"

\* the branch of the filter loop body that a candidate takes
Verdict(cm) ==
    IF TooLong(cm) THEN "too-long"
    ELSE IF RemovedOrDeleted(cm) THEN "removed-or-deleted"
    ELSE IF BlockedTopic(cm) THEN "blocked-topic"
    ELSE IF Stickied(cm) THEN "pinned"
    ELSE IF HasUrl(cm) THEN "contains-url"
    ELSE "accepted"

\* the limit is tested with > instead of ==
LimitPassed(n) == n > settings.comment_limit

\* len(accepted_comments) == settings.comment_limit
LimitReached(n) == n = settings.comment_limit

Logged(event, unit) == Append(log, [event |-> event, unit |-> unit])

\* where create() goes when the filter loop is left
AfterFilter == "comments"

FilterReject ==
    /\ pc = "filter"
    /\ fi <= Len(post.comments)
    /\ Verdict(post.comments[fi]) # "accepted"
    /\ c' = fi
    /\ rejected_comments' = Append(rejected_comments, fi)
    /\ log' = Logged(Verdict(post.comments[fi]), <<"candidate", fi>>)
    /\ fi' = fi + 1
    /\ UNCHANGED <<settings, post, env, description, thumbnail, pc, t, duration, clips, newcaster_start,
                   current_clip_text, sl, accepted_comments, count, ccount,
                   synthesized, meta_json, ledger, published>>

FilterAccept ==
    /\ pc = "filter"
    /\ fi <= Len(post.comments)
    /\ Verdict(post.comments[fi]) = "accepted"
    /\ c' = fi
    /\ accepted_comments' = Append(accepted_comments, fi)
    /\ log' = Logged("accepted", <<"candidate", fi>>)
    /\ fi' = fi + 1
    /\ pc' = IF LimitReached(Len(accepted_comments')) THEN AfterFilter ELSE pc
    /\ UNCHANGED <<settings, post, env, description, thumbnail, t, duration, clips, newcaster_start,
                   current_clip_text, sl, rejected_comments, count, ccount,
                   synthesized, meta_json, ledger, published>>

FilterExhausted ==
    /\ pc = "filter"
    /\ fi > Len(post.comments)
    /\ pc' = AfterFilter
    /\ UNCHANGED <<settings, post, env, description, thumbnail, t, duration, clips, newcaster_start,
                   current_clip_text, sl, fi, c, accepted_comments,
                   rejected_comments, count, ccount, synthesized, log,
                   meta_json, ledger, published>>

-----------------------------------------------------------------------------
(* Narrated segments.                                                      *)

TitlePath == <<"title", ".mp3">>
SelftextPath(n) == <<"selftext_", n, ".mp3">>
CommentPath(id) == <<id, ".mp3">>
CommentLinePath(id, n) == <<id, "_", n, ".mp3">>

\* audioclip.duration + settings.pause
SegmentDuration(audio) == audio + settings.pause

\* AudioFileClip(path): the narration that create_audio wrote
AudioClip(path, d) == [path |-> path, duration |-> d]

NoAudio == AudioClip(<<>>, 0)

\* a clip of v.clips
Clip(kind, start, d, audio) ==
    [kind |-> kind, start |-> start, duration |-> d, audio |-> audio]

\* set_duration without the pause
SegmentWithoutPause(kind, start, audioclip) ==
    Clip(kind, start, audioclip.duration, audioclip)

\* set_start left out: the clip starts at 0
SegmentWithoutStart(kind, start, audioclip) ==
    Clip(kind, 0, SegmentDuration(audioclip.duration), audioclip)

\* ...set_duration(audioclip.duration + settings.pause).set_audio(audioclip)
\* .set_start(t)
Segment(kind, start, audioclip) ==
    Clip(kind, start, SegmentDuration(audioclip.duration), audioclip)

Max(a, b) == IF a > b THEN a ELSE b

\* rows one caption line takes in the caption box
Rows(line) == Max(1, (Len(line) + env.columns - 1) \div env.columns)

RECURSIVE SumRows(_)
SumRows(lines) ==
    IF lines = <<>> THEN 0 ELSE Rows(Head(lines)) + SumRows(Tail(lines))

\* TextClip(text, ..., method="caption").h
TextHeight(text) == SumRows(SplitLines(text))

\* clip.h > settings.video_height
Overflows(h) == h > settings.video_height

\* the check made on v.duration alone, as after the line loop
ExceedsMaxLengthAlready(audio) == duration > settings.max_video_length

\* v.duration + audioclip.duration > settings.max_video_length
ExceedsMaxLength(audio) == duration + audio > settings.max_video_length

\* where create() goes after the title and the selftext
AfterSelftext == IF settings.enable_comments THEN "filter" ELSE "background"

\* the lines the selftext loop iterates over
SelftextLines == SplitLines(StripBlankLines(GiveEmojiFreeText(post.selftext)))

Space == <<" ">>

\* selftext_line == "&#x200B;" or " " or "  "
SkippedSelftextLine(line) ==
    line = ZeroWidthSpace \/ line = Space \/ line = Space \o Space

TitleNarrationFails ==
    /\ pc = "title"
    /\ env.faults
    /\ pc' = "aborted"
    /\ log' = Logged("narration-failed", <<"title">>)
    /\ UNCHANGED <<settings, post, env, description, thumbnail, t, duration, clips, newcaster_start,
                   current_clip_text, sl, fi, c, accepted_comments,
                   rejected_comments, count, ccount, synthesized,
                   meta_json, ledger, published>>

Title ==
    /\ pc = "title"
    /\ \E audio \in env.durations :
          /\ clips' = Append(clips, Segment("title", t, AudioClip(TitlePath, audio)))
          /\ t' = t + SegmentDuration(audio)
          /\ duration' = duration + SegmentDuration(audio)
    /\ newcaster_start' = t'
    /\ synthesized' = Append(synthesized, TitlePath)
    /\ pc' = IF post.selftext # <<>> /\ settings.enable_selftext
             THEN "selftext" ELSE AfterSelftext
    /\ UNCHANGED <<settings, post, env, description, thumbnail, current_clip_text, sl, fi, c,
                   accepted_comments, rejected_comments, count, ccount, log,
                   meta_json, ledger, published>>

SelftextSkipLine ==
    /\ pc = "selftext"
    /\ sl <= Len(SelftextLines)
    /\ SkippedSelftextLine(SelftextLines[sl])
    /\ sl' = sl + 1
    /\ UNCHANGED <<settings, post, env, description, thumbnail, pc, t, duration, clips, newcaster_start,
                   current_clip_text, fi, c, accepted_comments,
                   rejected_comments, count, ccount, synthesized, log,
                   meta_json, ledger, published>>

SelftextNarrationFails ==
    /\ pc = "selftext"
    /\ sl <= Len(SelftextLines)
    /\ ~SkippedSelftextLine(SelftextLines[sl])
    /\ env.faults
    /\ pc' = "aborted"
    /\ log' = Logged("narration-failed", <<"selftext", sl>>)
    /\ UNCHANGED <<settings, post, env, description, thumbnail, t, duration, clips, newcaster_start,
                   current_clip_text, sl, fi, c, accepted_comments,
                   rejected_comments, count, ccount, synthesized,
                   meta_json, ledger, published>>

\* TextClip raises IOError: logged, then sys.exit(1)
SelftextRenderFails ==
    /\ pc = "selftext"
    /\ sl <= Len(SelftextLines)
    /\ ~SkippedSelftextLine(SelftextLines[sl])
    /\ env.faults
    /\ synthesized' = Append(synthesized, SelftextPath(sl - 1))
    /\ current_clip_text' = current_clip_text \o SelftextLines[sl] \o <<NL>>
    /\ pc' = "aborted"
    /\ log' = Logged("caption-failed", <<"selftext", sl>>)
    /\ UNCHANGED <<settings, post, env, description, thumbnail, t, duration, clips, newcaster_start,
                   sl, fi, c, accepted_comments, rejected_comments, count,
                   ccount, meta_json, ledger, published>>

\* the caption fits, at once or after the buffer is reset to the new line
SelftextCommit ==
    /\ pc = "selftext"
    /\ sl <= Len(SelftextLines)
    /\ ~SkippedSelftextLine(SelftextLines[sl])
    /\ LET line == SelftextLines[sl] \o <<NL>>
           grown == current_clip_text \o line
           reset == Overflows(TextHeight(grown))
       IN  /\ reset => ~Overflows(TextHeight(line))
           /\ current_clip_text' = IF reset THEN line ELSE grown
    /\ \E audio \in env.durations :
          /\ clips' = Append(clips, Segment("selftext", t,
                                            AudioClip(SelftextPath(sl - 1), audio)))
          /\ t' = t + SegmentDuration(audio)
          /\ duration' = duration + SegmentDuration(audio)
    /\ synthesized' = Append(synthesized, SelftextPath(sl - 1))
    /\ sl' = sl + 1
    /\ UNCHANGED <<settings, post, env, description, thumbnail, pc, newcaster_start, fi, c,
                   accepted_comments, rejected_comments, count, ccount, log,
                   meta_json, ledger, published>>

\* the new line alone still overflows: the unit is skipped
SelftextDrop ==
    /\ pc = "selftext"
    /\ sl <= Len(SelftextLines)
    /\ ~SkippedSelftextLine(SelftextLines[sl])
    /\ LET line == SelftextLines[sl] \o <<NL>>
       IN  /\ Overflows(TextHeight(current_clip_text \o line))
           /\ Overflows(TextHeight(line))
           /\ current_clip_text' = line
    /\ synthesized' = Append(synthesized, SelftextPath(sl - 1))
    /\ log' = Logged("dropped-text", <<"selftext", sl>>)
    /\ sl' = sl + 1
    /\ UNCHANGED <<settings, post, env, description, thumbnail, pc, t, duration, clips, newcaster_start,
                   fi, c, accepted_comments, rejected_comments, count, ccount,
                   meta_json, ledger, published>>

StaticClipDuration == 1

\* the selftext loop is over: static.mp4 is appended, the buffer is cleared
SelftextDone ==
    /\ pc = "selftext"
    /\ sl > Len(SelftextLines)
    /\ clips' = Append(clips, Clip("static", t, StaticClipDuration, NoAudio))
    /\ t' = t + StaticClipDuration
    /\ duration' = duration + StaticClipDuration
    /\ current_clip_text' = <<>>
    /\ pc' = AfterSelftext
    /\ UNCHANGED <<settings, post, env, description, thumbnail, newcaster_start, sl, fi, c,
                   accepted_comments, rejected_comments, count, ccount,
                   synthesized, log, meta_json, ledger, published>>

-----------------------------------------------------------------------------
(* The comment loop, commentstyle "reddit": one screenshot per comment.    *)

InCommentLoop(style) ==
    /\ pc = "comments"
    /\ settings.commentstyle = style
    /\ count <= Len(accepted_comments)

accepted_comment == post.comments[accepted_comments[count]]

\* ImageClip(img_path).resize(width=...).h
ScaledHeight(img) == (img.h * settings.comment_image_width) \div img.w

CommentNarrationFails ==
    /\ InCommentLoop("reddit")
    /\ env.faults
    /\ pc' = "aborted"
    /\ log' = Logged("narration-failed", <<"comment", count>>)
    /\ UNCHANGED <<settings, post, env, description, thumbnail, t, duration, clips, newcaster_start,
                   current_clip_text, sl, fi, c, accepted_comments,
                   rejected_comments, count, ccount, synthesized,
                   meta_json, ledger, published>>

\* path.exists(img_path) is false
CommentImageMissing ==
    /\ InCommentLoop("reddit")
    /\ env.faults
    /\ synthesized' = Append(synthesized, CommentPath(accepted_comment.id))
    /\ log' = Logged("image-missing", <<"comment", count>>)
    /\ count' = count + 1
    /\ UNCHANGED <<settings, post, env, description, thumbnail, pc, t, duration, clips, newcaster_start,
                   current_clip_text, sl, fi, c, accepted_comments,
                   rejected_comments, ccount, meta_json, ledger, published>>

\* the exception of ImageClip is not caught
CommentImageErrorUncaught ==
    /\ pc = "comments"
    /\ settings.commentstyle = "reddit"
    /\ count <= Len(accepted_comments)
    /\ env.faults
    /\ synthesized' = Append(synthesized, CommentPath(post.comments[accepted_comments[count]].id))
    /\ log' = Logged("image-error", <<"comment", count>>)
    /\ pc' = "aborted"
    /\ UNCHANGED <<settings, post, env, description, thumbnail, t, duration, clips, newcaster_start,
                   current_clip_text, sl, fi, c, accepted_comments,
                   rejected_comments, count, ccount, meta_json, ledger,
                   published>>

\* ImageClip(img_path)... raises: except Exception, continue
CommentImageError ==
    /\ InCommentLoop("reddit")
    /\ env.faults
    /\ synthesized' = Append(synthesized, CommentPath(accepted_comment.id))
    /\ log' = Logged("image-error", <<"comment", count>>)
    /\ count' = count + 1
    /\ UNCHANGED <<settings, post, env, description, thumbnail, pc, t, duration, clips, newcaster_start,
                   current_clip_text, sl, fi, c, accepted_comments,
                   rejected_comments, ccount, meta_json, ledger, published>>

\* img_clip.h > settings.video_height
CommentImageTooTall ==
    /\ InCommentLoop("reddit")
    /\ \E img \in env.images : Overflows(ScaledHeight(img))
    /\ synthesized' = Append(synthesized, CommentPath(accepted_comment.id))
    /\ log' = Logged("dropped-image", <<"comment", count>>)
    /\ count' = count + 1
    /\ UNCHANGED <<settings, post, env, description, thumbnail, pc, t, duration, clips, newcaster_start,
                   current_clip_text, sl, fi, c, accepted_comments,
                   rejected_comments, ccount, meta_json, ledger, published>>

\* the duration check fires: break
CommentCap ==
    /\ InCommentLoop("reddit")
    /\ \E img \in env.images : ~Overflows(ScaledHeight(img))
    /\ \E audio \in env.durations : ExceedsMaxLength(audio)
    /\ synthesized' = Append(synthesized, CommentPath(accepted_comment.id))
    /\ log' = Logged("max-length", <<"comment", count>>)
    /\ pc' = "background"
    /\ UNCHANGED <<settings, post, env, description, thumbnail, t, duration, clips, newcaster_start,
                   current_clip_text, sl, fi, c, accepted_comments,
                   rejected_comments, count, ccount, meta_json, ledger,
                   published>>

CommentCommit ==
    /\ InCommentLoop("reddit")
    /\ \E img \in env.images : ~Overflows(ScaledHeight(img))
    /\ \E audio \in env.durations :
          /\ ~ExceedsMaxLength(audio)
          /\ clips' = Append(clips, Segment("comment_image", t,
                                            AudioClip(CommentPath(accepted_comment.id), audio)))
          /\ t' = t + SegmentDuration(audio)
          /\ duration' = duration + SegmentDuration(audio)
    /\ synthesized' = Append(synthesized, CommentPath(accepted_comment.id))
    /\ count' = count + 1
    /\ UNCHANGED <<settings, post, env, description, thumbnail, pc, newcaster_start, current_clip_text,
                   sl, fi, c, accepted_comments, rejected_comments, ccount, log,
                   meta_json, ledger, published>>

\* the comment loop has gone through accepted_comments
CommentsDone ==
    /\ pc = "comments"
    /\ count > Len(accepted_comments)
    /\ pc' = "background"
    /\ UNCHANGED <<settings, post, env, description, thumbnail, t, duration, clips, newcaster_start,
                   current_clip_text, sl, fi, c, accepted_comments,
                   rejected_comments, count, ccount, synthesized, log,
                   meta_json, ledger, published>>

-----------------------------------------------------------------------------
(* The comment loop, commentstyle "text": one caption per comment line.    *)

comment_lines == SplitLines(accepted_comment.body)

InLineLoop ==
    /\ InCommentLoop("text")
    /\ ccount <= Len(comment_lines)

\* comment_line == "&#x200B;" or comment_line == ""
SkippedCommentLine(line) == line = ZeroWidthSpace \/ line = <<>>

\* f"{c.id}_{ccount}.mp3": c is the variable of the filter loop
LineAudioPath == CommentLinePath(post.comments[c].id, ccount - 1)

CommentLineSkip ==
    /\ InLineLoop
    /\ SkippedCommentLine(comment_lines[ccount])
    /\ ccount' = ccount + 1
    /\ UNCHANGED <<settings, post, env, description, thumbnail, pc, t, duration, clips, newcaster_start,
                   current_clip_text, sl, fi, c, accepted_comments,
                   rejected_comments, count, synthesized, log, meta_json,
                   ledger, published>>

CommentLineNarrationFails ==
    /\ InLineLoop
    /\ ~SkippedCommentLine(comment_lines[ccount])
    /\ env.faults
    /\ pc' = "aborted"
    /\ log' = Logged("narration-failed", <<"comment", count, ccount>>)
    /\ UNCHANGED <<settings, post, env, description, thumbnail, t, duration, clips, newcaster_start,
                   current_clip_text, sl, fi, c, accepted_comments,
                   rejected_comments, count, ccount, synthesized,
                   meta_json, ledger, published>>

\* TextClip raises; nothing catches it
CommentLineRenderFails ==
    /\ InLineLoop
    /\ ~SkippedCommentLine(comment_lines[ccount])
    /\ env.faults
    /\ synthesized' = Append(synthesized, LineAudioPath)
    /\ current_clip_text' = current_clip_text \o comment_lines[ccount] \o <<NL, NL>>
    /\ pc' = "aborted"
    /\ log' = Logged("caption-failed", <<"comment", count, ccount>>)
    /\ UNCHANGED <<settings, post, env, description, thumbnail, t, duration, clips, newcaster_start,
                   sl, fi, c, accepted_comments, rejected_comments, count,
                   ccount, meta_json, ledger, published>>

\* the caption of the whole body fits, or the line alone fits and the
\* duration check passes
CommentLineCommit ==
    /\ InLineLoop
    /\ ~SkippedCommentLine(comment_lines[ccount])
    /\ \E audio \in env.durations :
          /\ LET line == comment_lines[ccount] \o <<NL, NL>>
                 reset == Overflows(TextHeight(accepted_comment.body))
             IN  /\ reset => /\ ~Overflows(TextHeight(line))
                             /\ ~ExceedsMaxLength(audio)
                 /\ current_clip_text' =
                        IF reset THEN line ELSE current_clip_text \o line
          /\ clips' = Append(clips, Segment("comment_text", t,
                                            AudioClip(LineAudioPath, audio)))
          /\ t' = t + SegmentDuration(audio)
          /\ duration' = duration + SegmentDuration(audio)
    /\ synthesized' = Append(synthesized, LineAudioPath)
    /\ ccount' = ccount + 1
    /\ UNCHANGED <<settings, post, env, description, thumbnail, pc, newcaster_start, sl, fi, c,
                   accepted_comments, rejected_comments, count, log,
                   meta_json, ledger, published>>

\* the cursor and the duration move before the line is found too tall
CommentLineDropAfterAdvance ==
    /\ InLineLoop
    /\ ~SkippedCommentLine(comment_lines[ccount])
    /\ LET line == comment_lines[ccount] \o <<NL, NL>>
       IN  /\ Overflows(TextHeight(accepted_comment.body))
           /\ Overflows(TextHeight(line))
           /\ current_clip_text' = line
    /\ \E audio \in env.durations :
          /\ t' = t + SegmentDuration(audio)
          /\ duration' = duration + SegmentDuration(audio)
    /\ synthesized' = Append(synthesized, LineAudioPath)
    /\ log' = Logged("dropped-text", <<"comment", count, ccount>>)
    /\ ccount' = ccount + 1
    /\ UNCHANGED <<settings, post, env, description, thumbnail, pc, clips,
                   newcaster_start, sl, fi, c, accepted_comments,
                   rejected_comments, count, meta_json, ledger, published>>

\* the body overflows and so does the line alone: continue
CommentLineDrop ==
    /\ InLineLoop
    /\ ~SkippedCommentLine(comment_lines[ccount])
    /\ LET line == comment_lines[ccount] \o <<NL, NL>>
       IN  /\ Overflows(TextHeight(accepted_comment.body))
           /\ Overflows(TextHeight(line))
           /\ current_clip_text' = line
    /\ synthesized' = Append(synthesized, LineAudioPath)
    /\ log' = Logged("dropped-text", <<"comment", count, ccount>>)
    /\ ccount' = ccount + 1
    /\ UNCHANGED <<settings, post, env, description, thumbnail, pc, t, duration, clips, newcaster_start,
                   sl, fi, c, accepted_comments, rejected_comments, count,
                   meta_json, ledger, published>>

\* the body overflows, the line alone fits, the duration check fires:
\* break out of the line loop
CommentLineCap ==
    /\ InLineLoop
    /\ ~SkippedCommentLine(comment_lines[ccount])
    /\ LET line == comment_lines[ccount] \o <<NL, NL>>
       IN  /\ Overflows(TextHeight(accepted_comment.body))
           /\ ~Overflows(TextHeight(line))
           /\ current_clip_text' = line
    /\ \E audio \in env.durations : ExceedsMaxLength(audio)
    /\ synthesized' = Append(synthesized, LineAudioPath)
    /\ log' = Logged("max-length", <<"comment", count, ccount>>)
    /\ pc' = "comment_end"
    /\ UNCHANGED <<settings, post, env, description, thumbnail, t, duration, clips, newcaster_start,
                   sl, fi, c, accepted_comments, rejected_comments, count,
                   ccount, meta_json, ledger, published>>

\* the line loop has gone through comment_lines
CommentLinesDone ==
    /\ InCommentLoop("text")
    /\ ccount > Len(comment_lines)
    /\ pc' = "comment_end"
    /\ UNCHANGED <<settings, post, env, description, thumbnail, t, duration, clips, newcaster_start,
                   current_clip_text, sl, fi, c, accepted_comments,
                   rejected_comments, count, ccount, synthesized, log,
                   meta_json, ledger, published>>

\* v.duration > settings.max_video_length
OverMaxLength == duration > settings.max_video_length

\* count == settings.comment_limit, count counted from 0
CountLimitReached == count - 1 = settings.comment_limit

\* the checks after the line loop
CommentEnd ==
    /\ pc = "comment_end"
    /\ IF OverMaxLength
       THEN /\ log' = Logged("max-length", <<"comment", count>>)
            /\ pc' = "background"
            /\ UNCHANGED <<count, ccount>>
       ELSE IF CountLimitReached
       THEN /\ log' = Logged("comment-limit", <<"comment", count>>)
            /\ pc' = "background"
            /\ UNCHANGED <<count, ccount>>
       ELSE /\ count' = count + 1
            /\ ccount' = 1
            /\ pc' = "comments"
            /\ UNCHANGED log
    /\ UNCHANGED <<settings, post, env, description, thumbnail, t, duration, clips, newcaster_start,
                   current_clip_text, sl, fi, c, accepted_comments,
                   rejected_comments, synthesized, meta_json, ledger, published>>

-----------------------------------------------------------------------------
(* Layers, output and upload.                                              *)

\* vfx.loop(clip, duration=d): at second x the clip shows the source's second
\* x modulo the source's length, for d seconds
Loop(source, d) ==
    [source |-> source, duration |-> d,
     frames |-> [x \in 1..d |-> (x - 1) % source]]

\* clip.set_duration(d): at second x the clip shows the source's second x
SetDuration(source, d) ==
    [source |-> source, duration |-> d, frames |-> [x \in 1..d |-> x - 1]]

\* a layer that is never looped
FitLayerTrimOnly(source, d) == SetDuration(source, d)

\* vfx.loop(clip, duration=d) when the source is shorter than v.duration,
\* clip.set_duration(d) otherwise
FitLayer(source, d) ==
    IF source < duration THEN Loop(source, d) ELSE SetDuration(source, d)

\* a layer clip: a fitted source that starts at `start`
Layer(kind, start, fitted) ==
    [kind |-> kind, start |-> start, duration |-> fitted.duration,
     audio |-> NoAudio, source |-> fitted.source, frames |-> fitted.frames]

\* ColorClip(size, color).set_duration(d): one colour for d seconds
ColorClip(d) ==
    [kind |-> "background", start |-> 0, duration |-> d, audio |-> NoAudio,
     source |-> 0, frames |-> [x \in 1..d |-> 0]]

\* the position counted from 1 where list.insert counts from 0
InsertCountedFromOne(seq, i, clip) ==
    SubSeq(seq, 1, i + 1) \o <<clip>> \o SubSeq(seq, i + 2, Len(seq))

\* v.clips.insert(i, clip), i counted from 0
Insert(seq, i, clip) ==
    SubSeq(seq, 1, i) \o <<clip>> \o SubSeq(seq, i + 1, Len(seq))

\* the background clip, or a ColorClip, goes to the bottom
Background ==
    /\ pc = "background"
    /\ IF settings.enable_background
       THEN \E source \in env.layer_durations :
               clips' = Insert(clips, 0,
                               Layer("background", 0, FitLayer(source, duration)))
       ELSE clips' = Insert(clips, 0, ColorClip(duration))
    /\ pc' = "overlay"
    /\ UNCHANGED <<settings, post, env, description, thumbnail, t, duration, newcaster_start,
                   current_clip_text, sl, fi, c, accepted_comments,
                   rejected_comments, count, ccount, synthesized, log,
                   meta_json, ledger, published>>

Overlay ==
    /\ pc = "overlay"
    /\ IF settings.enable_overlay
       THEN \E source \in env.layer_durations :
               clips' = Insert(clips, 1,
                               Layer("overlay", 0, FitLayer(source, duration)))
       ELSE UNCHANGED clips
    /\ pc' = "newscaster"
    /\ UNCHANGED <<settings, post, env, description, thumbnail, t, duration, newcaster_start,
                   current_clip_text, sl, fi, c, accepted_comments,
                   rejected_comments, count, ccount, synthesized, log,
                   meta_json, ledger, published>>

Newscaster ==
    /\ pc = "newscaster"
    /\ IF settings.enable_newscaster
       THEN \E source \in env.layer_durations :
               clips' = Append(clips,
                               Layer("newscaster", newcaster_start,
                                     FitLayer(source, duration - newcaster_start)))
       ELSE UNCHANGED clips
    /\ pc' = "metadata"
    /\ UNCHANGED <<settings, post, env, description, thumbnail, t, duration, newcaster_start,
                   current_clip_text, sl, fi, c, accepted_comments,
                   rejected_comments, count, ccount, synthesized, log,
                   meta_json, ledger, published>>

\* Python's None, kept apart from every path
None == ""

\* str(x) of a path or of None
Str(x) == IF x = None THEN "None" ELSE x

\* the line get_random_lines drew, with the hashtag when it is asked for
Description(line) ==
    IF settings.add_hashtag_shorts_to_description THEN line \o " #shorts"
    ELSE line

\* the span of the presenter where the length of the timeline belongs
MetaDataPresenterSpan ==
    [title       |-> post.title,
     description |-> description,
     thumbnail   |-> Str(thumbnail),
     file        |-> "final.mp4",
     duration    |-> ToString(duration - newcaster_start),
     height      |-> ToString(settings.video_height),
     width       |-> ToString(settings.video_width)]

\* the dict that json.dump writes to meta.json
MetaData ==
    [title       |-> post.title,
     description |-> description,
     thumbnail   |-> Str(thumbnail),
     file        |-> "final.mp4",
     duration    |-> ToString(duration),
     height      |-> ToString(settings.video_height),
     width       |-> ToString(settings.video_width)]

\* the row that csvwriter.write_entry is given
LedgerRow ==
    [id |-> post.id, title |-> post.title, thumbnail |-> thumbnail,
     file |-> "final.mp4", duration |-> duration, compiled |-> "false",
     uploaded |-> "false"]

\* csvmgr.CsvWriter.is_uploaded
IsUploaded(rows, id) ==
    \E i \in 1..Len(rows) : rows[i].id = id /\ rows[i].uploaded = "true"

\* csvmgr.CsvWriter.set_uploaded
SetUploaded(rows, id) ==
    [i \in 1..Len(rows) |->
        IF rows[i].id = id THEN [rows[i] EXCEPT !.uploaded = "true"] ELSE rows[i]]

WriteMetadata ==
    /\ pc = "metadata"
    /\ meta_json' = <<MetaData>>
    /\ pc' = "ledger"
    /\ UNCHANGED <<settings, post, env, description, thumbnail, t, duration, clips, newcaster_start,
                   current_clip_text, sl, fi, c, accepted_comments,
                   rejected_comments, count, ccount, synthesized, log,
                   ledger, published>>

\* write_entry, then write_videofile when compilation is enabled
WriteLedger ==
    /\ pc = "ledger"
    /\ ledger' = Append(ledger, LedgerRow)
    /\ pc' = "upload"
    /\ UNCHANGED <<settings, post, env, description, thumbnail, t, duration, clips, newcaster_start,
                   current_clip_text, sl, fi, c, accepted_comments,
                   rejected_comments, count, ccount, synthesized, log,
                   meta_json, published>>

\* settings.enable_compilation and settings.enable_upload
UploadEnabled == settings.enable_compilation /\ settings.enable_upload

\* path.exists("client_secret.json") and path.exists("credentials.storage")
Credentials == env.client_secret /\ env.credentials_storage

\* the ledger is not asked
PublishUnasked == TRUE

\* csvwriter.is_uploaded(v.meta.id) is false
MayPublish == ~IsUploaded(ledger, post.id)

UploadSkipped ==
    /\ pc = "upload"
    /\ ~UploadEnabled
    /\ pc' = "done"
    /\ log' = Logged("upload-skipped", <<"post">>)
    /\ UNCHANGED <<settings, post, env, description, thumbnail, t, duration, clips, newcaster_start,
                   current_clip_text, sl, fi, c, accepted_comments,
                   rejected_comments, count, ccount, synthesized,
                   meta_json, ledger, published>>

\* client_secret.json or credentials.storage is missing
UploadNoCredentials ==
    /\ pc = "upload"
    /\ UploadEnabled
    /\ ~Credentials
    /\ pc' = "done"
    /\ log' = Logged("no-credentials", <<"post">>)
    /\ UNCHANGED <<settings, post, env, description, thumbnail, t, duration, clips, newcaster_start,
                   current_clip_text, sl, fi, c, accepted_comments,
                   rejected_comments, count, ccount, synthesized,
                   meta_json, ledger, published>>

AlreadyUploaded ==
    /\ pc = "upload"
    /\ UploadEnabled
    /\ Credentials
    /\ ~MayPublish
    /\ pc' = "done"
    /\ log' = Logged("already-uploaded", <<"post">>)
    /\ UNCHANGED <<settings, post, env, description, thumbnail, t, duration, clips, newcaster_start,
                   current_clip_text, sl, fi, c, accepted_comments,
                   rejected_comments, count, ccount, synthesized,
                   meta_json, ledger, published>>

\* youtube.publish returns: set_uploaded
Publish ==
    /\ pc = "upload"
    /\ UploadEnabled
    /\ Credentials
    /\ MayPublish
    /\ published' = published + 1
    /\ ledger' = SetUploaded(ledger, post.id)
    /\ pc' = "done"
    /\ log' = Logged("published", <<"post">>)
    /\ UNCHANGED <<settings, post, env, description, thumbnail, t, duration, clips, newcaster_start,
                   current_clip_text, sl, fi, c, accepted_comments,
                   rejected_comments, count, ccount, synthesized, meta_json>>

\* set_uploaded in a finally clause: it runs when publish raises too
PublishFailsMarksUploaded ==
    /\ pc = "upload"
    /\ UploadEnabled
    /\ Credentials
    /\ MayPublish
    /\ env.faults
    /\ published' = published + 1
    /\ ledger' = SetUploaded(ledger, post.id)
    /\ pc' = "done"
    /\ log' = Logged("publish-failed", <<"post">>)
    /\ UNCHANGED <<settings, post, env, description, thumbnail, t, duration,
                   clips, newcaster_start, current_clip_text, sl, fi, c,
                   accepted_comments, rejected_comments, count, ccount,
                   synthesized, meta_json>>

\* youtube.publish raises: except Exception, logged
PublishFails ==
    /\ pc = "upload"
    /\ UploadEnabled
    /\ Credentials
    /\ MayPublish
    /\ env.faults
    /\ published' = published + 1
    /\ pc' = "done"
    /\ log' = Logged("publish-failed", <<"post">>)
    /\ UNCHANGED <<settings, post, env, description, thumbnail, t, duration, clips, newcaster_start,
                   current_clip_text, sl, fi, c, accepted_comments,
                   rejected_comments, count, ccount, synthesized, meta_json,
                   ledger>>

-----------------------------------------------------------------------------
(* Inputs: the settings, the post, the collaborators' answers.             *)

BaseSettings ==
    [enable_background   |-> TRUE,
     enable_overlay      |-> FALSE,
     enable_newscaster   |-> FALSE,
     enable_selftext     |-> TRUE,
     enable_comments     |-> TRUE,
     enable_compilation  |-> FALSE,
     enable_upload       |-> FALSE,
     add_hashtag_shorts_to_description |-> FALSE,
     commentstyle        |-> "reddit",
     comment_limit       |-> 600,
     comment_length_max  |-> 14,
     max_video_length    |-> 600,
     pause               |-> 1,
     video_height        |-> 2,
     video_width         |-> 2,
     comment_image_width |-> 2]

BaseEnv ==
    [durations       |-> {1},
     images          |-> {[w |-> 2, h |-> 1]},
     columns         |-> 4,
     layer_durations |-> {1},
     referral_lines  |-> {"line 1"},
     thumbnails      |-> <<>>,
     client_secret   |-> TRUE,
     credentials_storage |-> TRUE,
     faults          |-> FALSE]

\* sequences over S of length at most n
SeqsUpTo(S, n) == UNION {[1..k -> S] : k \in 0..n}

\* the comments of a thread: Reddit gives every comment its own id
Comments(items) ==
    [i \in 1..Len(items) |->
        [id |-> i, body |-> items[i].body, stickied |-> items[i].stickied]]

Plain(body) == [body |-> body, stickied |-> FALSE]
Pinned(body) == [body |-> body, stickied |-> TRUE]

Ok == <<"o","k">>
MixedCovid == <<"C","o","V","i","d">>
UpperVaccine == <<"V","A","C","C","I","N","E">>
Url == UrlScheme \o <<"a">>
CovidUrl == <<"c","O","v","i","d"," ">> \o Url
EmojiUrl == <<"h","t",EMOJI,"t","p",":","/","/","a">>
Long == <<"x","x","x","x","x","x","x","x","x","x","x","x","x","x","x">>
TwoLines == <<"a","b",NL,"c","d">>
TallLine == <<"a","b","c","d","e","f","g","h","i">>
TallBody == TallLine \o <<NL, NL>> \o Ok
ThreeLines == <<"a","b",NL,NL,"c","d",NL,"e","f">>
ZeroWidthFirst == ZeroWidthSpace \o <<NL>> \o Ok

\* candidates of the filter
FilterPool ==
    {Plain(Ok), Plain(Deleted), Plain(Removed), Plain(MixedCovid),
     Plain(UpperVaccine), Plain(Url), Plain(EmojiUrl),
     Plain(Long), Pinned(Ok), Pinned(CovidUrl)}

Post(selftext, items) ==
    [id |-> "t3_post", title |-> "Hello World", selftext |-> selftext,
     comments |-> Comments(items)]

PriorRow(flag) ==
    [id |-> "t3_post", title |-> "Hello World", thumbnail |-> None,
     file |-> "final.mp4", duration |-> 0, compiled |-> "true",
     uploaded |-> flag]

\* threads that exercise the filter
FilterInputs ==
    /\ \E items \in SeqsUpTo(FilterPool, MaxCandidates) : post = Post(<<>>, items)
    /\ \E limit \in {0, 1, 2}, lmax \in {8, 14} :
          settings = [BaseSettings EXCEPT !.comment_limit = limit,
                                          !.comment_length_max = lmax]
    /\ env = BaseEnv
    /\ ledger = <<>>

\* threads that exercise the assembly of narrated segments
AssemblyInputs ==
    /\ \E selftext \in {<<>>, ThreeLines, TallBody, ZeroWidthFirst},
          items \in SeqsUpTo({Plain(Ok), Plain(TwoLines), Plain(TallBody)}, MaxComments) :
          post = Post(selftext, items)
    /\ \E style \in {"reddit", "text"}, selftext_on \in BOOLEAN,
          maxlen \in {4, 7}, limit \in {1, 600} :
          settings = [BaseSettings EXCEPT !.commentstyle = style,
                                          !.enable_selftext = selftext_on,
                                          !.max_video_length = maxlen,
                                          !.comment_limit = limit]
    /\ env = [BaseEnv EXCEPT !.durations = {1, 2},
                             !.images = {[w |-> 2, h |-> 1], [w |-> 1, h |-> 2]},
                             !.faults = TRUE]
    /\ ledger = <<>>

\* scenario C of the specification
ScenarioC ==
    [comments |-> 10, narration |-> 5, pause |-> 1, max_video_length |-> 40]

ScenarioInputs ==
    /\ post = Post(<<>>, [i \in 1..ScenarioC.comments |-> Plain(Ok)])
    /\ settings = [BaseSettings EXCEPT !.max_video_length = ScenarioC.max_video_length,
                                       !.pause = ScenarioC.pause]
    /\ env = [BaseEnv EXCEPT !.durations = {ScenarioC.narration},
                             !.images = {[w |-> 2, h |-> 1], [w |-> 1, h |-> 2]}]
    /\ ledger = <<>>

\* runs that exercise the layers
LayerInputs ==
    /\ \E selftext \in {<<>>, Ok} : post = Post(selftext, <<Plain(Ok)>>)
    /\ \E bg, ov, nc, com \in BOOLEAN :
          settings = [BaseSettings EXCEPT !.enable_background = bg,
                                          !.enable_overlay = ov,
                                          !.enable_newscaster = nc,
                                          !.enable_comments = com]
    /\ env = [BaseEnv EXCEPT !.layer_durations = {1, 3, 50}, !.faults = TRUE]
    /\ ledger = <<>>

\* runs that exercise the output and the upload
OutputInputs ==
    /\ post = Post(<<>>, <<Plain(Ok)>>)
    /\ \E comp, up, tag \in BOOLEAN :
          settings = [BaseSettings EXCEPT !.enable_compilation = comp,
                                          !.enable_upload = up,
                                          !.add_hashtag_shorts_to_description = tag]
    /\ \E thumbnails \in {<<>>, <<"thumb.png">>}, secret, storage \in BOOLEAN :
          env = [BaseEnv EXCEPT !.referral_lines = {"line 1", "line 2"},
                                !.thumbnails = thumbnails,
                                !.client_secret = secret,
                                !.credentials_storage = storage,
                                !.faults = TRUE]
    /\ ledger \in {<<>>, <<PriorRow("true")>>, <<PriorRow("false")>>}

Init ==
    /\ \/ FilterInputs
       \/ AssemblyInputs
       \/ ScenarioInputs
       \/ LayerInputs
       \/ OutputInputs
    /\ \E line \in env.referral_lines : description = Description(line)
    /\ thumbnail = IF env.thumbnails # <<>> THEN env.thumbnails[1] ELSE None
    /\ pc = "title"
    /\ t = 0
    /\ duration = 0
    /\ clips = <<>>
    /\ newcaster_start = 0
    /\ current_clip_text = <<>>
    /\ sl = 1
    /\ fi = 1
    /\ c = 0
    /\ accepted_comments = <<>>
    /\ rejected_comments = <<>>
    /\ count = 1
    /\ ccount = 1
    /\ synthesized = <<>>
    /\ log = <<>>
    /\ meta_json = <<>>
    /\ published = 0

Next ==
    \/ TitleNarrationFails
    \/ Title
    \/ SelftextSkipLine
    \/ SelftextNarrationFails
    \/ SelftextRenderFails
    \/ SelftextCommit
    \/ SelftextDrop
    \/ SelftextDone
    \/ FilterReject
    \/ FilterAccept
    \/ FilterExhausted
    \/ CommentNarrationFails
    \/ CommentImageMissing
    \/ CommentImageError
    \/ CommentImageTooTall
    \/ CommentCap
    \/ CommentCommit
    \/ CommentsDone
    \/ CommentLineSkip
    \/ CommentLineNarrationFails
    \/ CommentLineRenderFails
    \/ CommentLineCommit
    \/ CommentLineDrop
    \/ CommentLineCap
    \/ CommentLinesDone
    \/ CommentEnd
    \/ Background
    \/ Overlay
    \/ Newscaster
    \/ WriteMetadata
    \/ WriteLedger
    \/ UploadSkipped
    \/ UploadNoCredentials
    \/ AlreadyUploaded
    \/ Publish
    \/ PublishFails

Spec == Init /\ [][Next]_vars

-----------------------------------------------------------------------------
(* Properties of the comment filter.                                       *)

FilterOver ==
    pc \in {"comments", "comment_end", "background", "overlay", "newscaster",
            "metadata", "ledger", "upload", "done"}

\* the candidates the filter loop has classified so far
Examined == 1..(fi - 1)

\* what the logger recorded for candidate i
VerdictsOf(i) ==
    {log[k].event : k \in {j \in 1..Len(log) : log[j].unit = <<"candidate", i>>}}

InSeq(x, seq) == \E k \in 1..Len(seq) : seq[k] = x

Increasing(seq) == \A i, j \in 1..Len(seq) : i < j => seq[i] < seq[j]

\* the word occurs in the text, in whatever letter case
Mentions(text, word) ==
    \E i \in 1..(Len(text) - Len(word) + 1) :
        \A k \in 1..Len(word) : LowerChar(text[i + k - 1]) = word[k]

MentionsBlockedTopic(body) == Mentions(body, Covid) \/ Mentions(body, Vaccine)

IsSentinel(body) == body = Removed \/ body = Deleted

WithinLength(body) == Len(body) <= settings.comment_length_max

PassesAllRules(cm) ==
    /\ WithinLength(cm.body)
    /\ ~IsSentinel(cm.body)
    /\ ~MentionsBlockedTopic(cm.body)
    /\ ~cm.stickied
    /\ ~ContainsUrl(cm.body)

\* C3: when the filter loop has ended, accepted_comments holds at most
\* comment_limit comments and each of them passes all five rules.
C3_AcceptedWithinLimitAndClean ==
    FilterOver =>
        /\ Len(accepted_comments) <= settings.comment_limit
        /\ \A k \in 1..Len(accepted_comments) :
              PassesAllRules(post.comments[accepted_comments[k]])

\* the second half of C3 alone: every accepted comment passes the five rules
AcceptedClean ==
    \A k \in 1..Len(accepted_comments) :
        PassesAllRules(post.comments[accepted_comments[k]])

\* C4: every examined candidate gets the verdict of the first rule that
\* matches, in the order too-long, removed-or-deleted, blocked-topic, pinned,
\* contains-url, and only that verdict; a comment that mentions a blocked
\* topic in any letter case, is within the length limit and is no sentinel
\* is rejected as blocked-topic, stickied or with a URL or not, and is never
\* accepted.
C4_FirstMatchingRuleDecides ==
    \A i \in Examined :
        LET cm == post.comments[i]
            long == ~WithinLength(cm.body)
            gone == IsSentinel(cm.body)
            topic == MentionsBlockedTopic(cm.body)
            url == ContainsUrl(GiveEmojiFreeText(cm.body))
            expected ==
                IF long THEN "too-long"
                ELSE IF gone THEN "removed-or-deleted"
                ELSE IF topic THEN "blocked-topic"
                ELSE IF cm.stickied THEN "pinned"
                ELSE IF url THEN "contains-url"
                ELSE "accepted"
        IN  /\ VerdictsOf(i) = {expected}
            /\ (~long /\ ~gone /\ topic) =>
                  /\ InSeq(i, rejected_comments)
                  /\ ~InSeq(i, accepted_comments)

C4_Witness ==
    \E i \in Examined :
        /\ MentionsBlockedTopic(post.comments[i].body)
        /\ post.comments[i].stickied
        /\ ContainsUrl(post.comments[i].body)
        /\ VerdictsOf(i) = {"blocked-topic"}
        /\ InSeq(i, rejected_comments)

\* C5 as stated: an examined comment whose body is exactly "[deleted]" is
\* rejected by the removed-or-deleted rule, whatever comment_length_max is.
C5_DeletedRejectedAsDeleted ==
    \A i \in Examined :
        post.comments[i].body = Deleted =>
            /\ VerdictsOf(i) = {"removed-or-deleted"}
            /\ ~InSeq(i, accepted_comments)

\* C5 amended: an examined comment whose body is exactly "[deleted]" is
\* never accepted; it is rejected by the removed-or-deleted rule when
\* comment_length_max is at least the length of the sentinel, and by the
\* too-long rule otherwise.
C5_DeletedAlwaysRejected ==
    \A i \in Examined :
        post.comments[i].body = Deleted =>
            /\ ~InSeq(i, accepted_comments)
            /\ InSeq(i, rejected_comments)
            /\ VerdictsOf(i) =
                  IF settings.comment_length_max >= Len(Deleted)
                  THEN {"removed-or-deleted"} ELSE {"too-long"}

C5_Witness ==
    \E i, j \in Examined :
        /\ post.comments[i].body = Deleted
        /\ settings.comment_length_max < Len(Deleted)
        /\ VerdictsOf(i) = {"too-long"}
        /\ InSeq(j, accepted_comments)
        /\ FilterOver

\* C6: candidates are examined in input order; accepted_comments and
\* rejected_comments keep that order and together are exactly the examined
\* prefix of the input; once an acceptance has filled comment_limit, no later
\* candidate is in either list; the loop ends only on that or on the end of
\* the input.
C6_PrefixExaminedInOrder ==
    LET n == Len(accepted_comments) + Len(rejected_comments)
        filled == /\ accepted_comments # <<>>
                  /\ Len(accepted_comments) = settings.comment_limit
    IN  /\ Increasing(accepted_comments)
        /\ Increasing(rejected_comments)
        /\ \A i \in 1..n : InSeq(i, accepted_comments) # InSeq(i, rejected_comments)
        /\ \A k \in 1..Len(accepted_comments) : accepted_comments[k] \in 1..n
        /\ \A k \in 1..Len(rejected_comments) : rejected_comments[k] \in 1..n
        /\ n <= Len(post.comments)
        /\ filled => accepted_comments[Len(accepted_comments)] = n
        /\ (FilterOver /\ settings.enable_comments) =>
              (n = Len(post.comments) \/ filled)

C6_Witness ==
    /\ FilterOver
    /\ Len(accepted_comments) = settings.comment_limit
    /\ accepted_comments # <<>>
    /\ rejected_comments # <<>>
    /\ Len(accepted_comments) + Len(rejected_comments) < Len(post.comments)

-----------------------------------------------------------------------------
(* Properties of the timeline.                                             *)

NarratedKinds == {"title", "selftext", "comment_image", "comment_text"}

\* the narrated segments of v.clips, in the order of v.clips
Narrated == SelectSeq(clips, LAMBDA cl : cl.kind \in NarratedKinds)

OfKind(kind) == SelectSeq(clips, LAMBDA cl : cl.kind = kind)

RECURSIVE SumDurations(_)
SumDurations(seq) ==
    IF seq = <<>> THEN 0 ELSE Head(seq).duration + SumDurations(Tail(seq))

Last(seq) == seq[Len(seq)]

HasEvent(event) == \E k \in 1..Len(log) : log[k].event = event

CommentLoopOver ==
    pc \in {"background", "overlay", "newscaster", "metadata", "ledger",
            "upload", "done"}

\* C1: once a narrated segment is committed, v.duration is at most
\* settings.max_video_length.
C1_CommittedWithinCeiling ==
    Narrated # <<>> => duration <= settings.max_video_length

\* the run is scenario C: ten accepted comments of 5 s narration, 1 s pause,
\* ceiling 40, title segment of 6 s, no selftext, every image present and
\* fitting
ScenarioCRun ==
    /\ settings.commentstyle = "reddit"
    /\ settings.max_video_length = 40
    /\ settings.pause = 1
    /\ post.selftext = <<>>
    /\ Len(accepted_comments) = 10
    /\ env.durations = {5}
    /\ OfKind("title") # <<>> /\ OfKind("title")[1].duration = 6
    /\ ~HasEvent("dropped-image")
    /\ ~HasEvent("image-missing")
    /\ ~HasEvent("image-error")
    /\ CommentLoopOver

\* C2 as stated: scenario C commits exactly 6 comment segments and the
\* duration cap is hit on the 7th comment.
C2_SixSegmentsCapOnSeventh ==
    ScenarioCRun =>
        /\ Len(OfKind("comment_image")) = 6
        /\ \E k \in 1..Len(log) :
              log[k] = [event |-> "max-length", unit |-> <<"comment", 7>>]

\* C2 amended: scenario C commits exactly 5 comment segments and the
\* duration cap is hit on the 6th comment.
C2_FiveSegmentsCapOnSixth ==
    ScenarioCRun =>
        /\ Len(OfKind("comment_image")) = 5
        /\ \E k \in 1..Len(log) :
              log[k] = [event |-> "max-length", unit |-> <<"comment", 6>>]
        /\ duration = 36

C2_Witness ==
    /\ ScenarioCRun
    /\ pc = "background"
    /\ Len(OfKind("comment_image")) = 5

\* C7 as stated: v.duration is the sum of the durations of the committed
\* narrated segments, with and without a selftext body.
C7_DurationIsNarratedSum == duration = SumDurations(Narrated)

DurationAccounted ==
    /\ duration = SumDurations(Narrated) + SumDurations(OfKind("static"))
    /\ \A k \in 1..Len(Narrated) :
          Narrated[k].duration = Narrated[k].audio.duration + settings.pause
    /\ Len(OfKind("static")) <= 1
    /\ \A k \in 1..Len(OfKind("static")) :
          /\ OfKind("static")[k].duration = 1
          /\ post.selftext # <<>> /\ settings.enable_selftext
    /\ meta_json # <<>> =>
          meta_json[1].duration =
              ToString(SumDurations(Narrated) + SumDurations(OfKind("static")))

\* C7 amended: v.duration never decreases and at every point, in particular
\* in the metadata, equals the sum of the durations of the committed narrated
\* segments, each its narration audio plus settings.pause, plus the 1 second
\* of the static clip that is appended once a selftext body has been
\* processed.
C7_DurationIsNarratedSumPlusStatic ==
    /\ []DurationAccounted
    /\ [][duration' >= duration]_vars

C7_Witness ==
    /\ meta_json # <<>>
    /\ OfKind("static") # <<>>
    /\ OfKind("selftext") # <<>>
    /\ OfKind("comment_text") # <<>>
    /\ HasEvent("dropped-text")

NarratedInOrder ==
    /\ \A k \in 1..(Len(Narrated) - 1) :
          Narrated[k].start + Narrated[k].duration <= Narrated[k + 1].start
    /\ \A j, k \in 1..Len(Narrated) :
          j # k => Narrated[j].start # Narrated[k].start
    /\ Narrated # <<>> =>
          Last(Narrated).start + Last(Narrated).duration <= t

\* C8: the narrated segments of v.clips are in append order with
\* non-overlapping intervals: each starts at the cursor t of its commit, the
\* cursor then moves by its duration, adjacent segments satisfy
\* start[i] + duration[i] <= start[i+1], no two share a start offset, and a
\* step that commits nothing leaves the cursor where it was.
C8_NarratedSegmentsDoNotOverlap ==
    /\ []NarratedInOrder
    /\ [][/\ Len(Narrated') = Len(Narrated) + 1 =>
                /\ Last(Narrated').start = t
                /\ t' = t + Last(Narrated').duration
                /\ SubSeq(Narrated', 1, Len(Narrated)) = Narrated
          /\ Len(Narrated') # Len(Narrated) + 1 =>
                \/ (Narrated' = Narrated /\ t' = t)
                \/ OfKind("static")' # OfKind("static")]_vars

C8_Witness ==
    /\ Len(Narrated) >= 3
    /\ HasEvent("dropped-image")
    /\ \E k \in 1..(Len(Narrated) - 1) :
          Narrated[k].start + Narrated[k].duration < Narrated[k + 1].start

-----------------------------------------------------------------------------
(* Properties of failure handling.                                         *)

\* the row of this run is in the ledger
RowWritten == \E k \in 1..Len(ledger) : ledger[k].compiled = "false"

Absorbed ==
    {"dropped-text", "dropped-image", "image-missing", "image-error",
     "max-length", "comment-limit"}

\* the step records the event
Records(events) == log' # log /\ Last(log').event \in events

EndsEarlyOnlyOnFatal ==
    /\ pc = "aborted" =>
          /\ Last(log).event \in {"narration-failed", "caption-failed"}
          /\ meta_json = <<>>
          /\ ~RowWritten
    /\ pc = "done" => meta_json # <<>> /\ RowWritten

C10_PublishOnlyWhenNotUploaded ==
    [][/\ published' # published =>
             /\ ~(\E k \in 1..Len(ledger) :
                     ledger[k].id = post.id /\ ledger[k].uploaded = "true")
             /\ published' = published + 1
             /\ pc = "upload"
       /\ Records({"publish-failed"}) =>
             /\ published' = published + 1
             /\ pc' = "done"
             /\ meta_json' = meta_json /\ meta_json # <<>>
             /\ ledger' = ledger /\ RowWritten]_vars

C10_Witness ==
    /\ pc = "done"
    /\ log # <<>> /\ Last(log).event = "publish-failed"
    /\ published = 1
    /\ meta_json # <<>>
    /\ Len(ledger) = 2
    /\ \A k \in 1..Len(ledger) : ledger[k].uploaded = "false"

-----------------------------------------------------------------------------
(* The layer tracks.                                                       *)

\* the clip list is complete: it is what CompositeVideoClip is given
LayersAdded == pc \in {"metadata", "ledger", "upload", "done"}

\* the track covers exactly [from, v.duration]
Covers(cl, from) == cl.start = from /\ cl.start + cl.duration = duration

\* the source is played from its start and starts again whenever it ends
Looped(cl) ==
    /\ DOMAIN cl.frames = 1..cl.duration
    /\ \A x \in 1..cl.duration :
          cl.frames[x] = IF x = 1 \/ cl.frames[x - 1] = cl.source - 1
                         THEN 0 ELSE cl.frames[x - 1] + 1

\* the track is the start of the source, cut at the track's length
Trimmed(cl) ==
    /\ DOMAIN cl.frames = 1..cl.duration
    /\ \A x \in 1..cl.duration : cl.frames[x] = x - 1 /\ x - 1 < cl.source

Fitted(cl) == IF cl.source < cl.duration THEN Looped(cl) ELSE Trimmed(cl)

TrackCovers(kind, from) ==
    /\ Len(OfKind(kind)) = 1
    /\ Covers(OfKind(kind)[1], from)
    /\ Fitted(OfKind(kind)[1])

\* C11: once the layers are added, every enabled layer track ends at
\* v.duration: background and overlay cover [0, v.duration], the newscaster
\* covers [s, v.duration] with s the cursor right after the title segment; a
\* source shorter than its span is looped to it, any other source is trimmed
C11_LayersCoverTimeline ==
    LayersAdded =>
       /\ newcaster_start = OfKind("title")[1].start + OfKind("title")[1].duration
       /\ settings.enable_background => TrackCovers("background", 0)
       /\ settings.enable_overlay => TrackCovers("overlay", 0)
       /\ settings.enable_newscaster => TrackCovers("newscaster", newcaster_start)

\* all three layers are on; the background source is shorter than the
\* timeline, the newscaster source is shorter than the timeline but longer
\* than its span, the overlay source is longer than the timeline
C11_Witness ==
    /\ LayersAdded
    /\ settings.enable_background /\ settings.enable_overlay
    /\ settings.enable_newscaster
    /\ OfKind("background")[1].source < duration
    /\ OfKind("overlay")[1].source > duration
    /\ OfKind("newscaster")[1].source < duration
    /\ OfKind("newscaster")[1].source > duration - newcaster_start
    /\ duration > newcaster_start

-----------------------------------------------------------------------------
(* The run output.                                                         *)

\* the sidecar is on disk
MetaWritten == meta_json # <<>>

\* the row this run wrote; rows of earlier runs come before it
ThisRow == Last(ledger)

\* the steps that derive the sidecar and the ledger row
Deriving == pc \in {"metadata", "ledger"}

\* what the finished timeline and the configuration give right now
MetaAgrees ==
    /\ meta_json[1].title = post.title
    /\ meta_json[1].description = description
    /\ meta_json[1].thumbnail = (IF thumbnail = None THEN "None" ELSE thumbnail)
    /\ meta_json[1].file = "final.mp4"
    /\ meta_json[1].duration = ToString(duration)
    /\ meta_json[1].height = ToString(settings.video_height)
    /\ meta_json[1].width = ToString(settings.video_width)

\* the second derivation, the ledger row, against the first and the timeline
RowAgrees ==
    /\ ThisRow.id = post.id
    /\ ThisRow.title = meta_json[1].title
    /\ ThisRow.thumbnail = thumbnail
    /\ ThisRow.file = meta_json[1].file
    /\ ThisRow.duration = duration
    /\ ToString(ThisRow.duration) = meta_json[1].duration

\* C12: the sidecar and the ledger row are functions of the finished timeline
\* and the settings: whenever they are derived again later in the run the
\* values are the ones written, the two derivations agree with each other,
\* the reported duration is v.duration, and deriving changes neither v.clips
\* nor v.duration
C12_DerivationIsPure ==
    /\ [](MetaWritten => MetaAgrees)
    /\ [](RowWritten => RowAgrees)
    /\ [][Deriving => clips' = clips /\ duration' = duration /\ t' = t]_vars

\* a finished run with a four-second timeline, no thumbnail, the hashtag in
\* the description and an earlier row in the ledger
C12_Witness ==
    /\ pc = "done"
    /\ MetaWritten /\ RowWritten
    /\ meta_json[1].duration = "4"
    /\ meta_json[1].thumbnail = "None"
    /\ meta_json[1].description = "line 2 #shorts"
    /\ Len(ledger) = 2
    /\ Len(clips) = 3

-----------------------------------------------------------------------------
(* After the duration cap.                                                 *)

\* a comment, or a line of one, was turned away by the test
\* v.duration + audioclip.duration > max_video_length
RejectedByCap ==
    \E k \in 1..Len(log) :
       /\ log[k].event = "max-length"
       /\ settings.commentstyle = "reddit" \/ Len(log[k].unit) = 3

\* C13: once a comment unit has been rejected by the duration cap, no further
\* narrated segment is committed in the run, in either comment style; only the
\* layers are added afterwards
C13_NoCommitAfterCap == [][RejectedByCap => Narrated' = Narrated]_vars

-----------------------------------------------------------------------------
(* Dropped units.                                                          *)

\* a selftext line or comment line too tall after re-flow, a comment image
\* too tall, a missing screenshot, an exception while loading the image
DropEvents == {"dropped-text", "dropped-image", "image-missing", "image-error"}

\* the loop that dropped the unit is at its next unit
AtNextUnit ==
    /\ pc' = pc
    /\ accepted_comments' = accepted_comments
    /\ \/ Last(log').unit[1] = "selftext"
          /\ sl' = sl + 1 /\ count' = count /\ ccount' = ccount
       \/ Last(log').unit[1] = "comment" /\ Len(Last(log').unit) = 2
          /\ sl' = sl /\ count' = count + 1 /\ ccount' = ccount
       \/ Last(log').unit[1] = "comment" /\ Len(Last(log').unit) = 3
          /\ sl' = sl /\ count' = count /\ ccount' = ccount + 1

\* C14: a step that drops a unit leaves the cursor t, v.duration and v.clips
\* as they were, and the loop goes on with the next unit of the same thread
C14_DropLeavesTimeline ==
    [][Records(DropEvents) =>
          /\ t' = t /\ duration' = duration /\ clips' = clips
          /\ AtNextUnit]_vars

\* a finished run that dropped a selftext line and lost a screenshot, and
\* committed a selftext line and a comment image all the same
C14_Witness ==
    /\ pc = "done"
    /\ \E k \in 1..Len(log) :
          log[k] = [event |-> "dropped-text", unit |-> <<"selftext", 1>>]
    /\ OfKind("selftext") # <<>>
    /\ \E k \in 1..Len(log) :
          log[k] = [event |-> "image-missing", unit |-> <<"comment", 1>>]
    /\ OfKind("comment_image") # <<>>

-----------------------------------------------------------------------------
(* The order of the clip list.                                             *)

\* the clips of the timeline proper: narrated segments and the static clip
TimelineKinds == NarratedKinds \cup {"static"}

\* how many layers lie under the timeline, and where the timeline ends
LayersBelow == IF settings.enable_overlay THEN 2 ELSE 1
TimelineEnd == IF settings.enable_newscaster THEN Len(clips) - 1 ELSE Len(clips)

\* C15 as stated: the list given to CompositeVideoClip is, bottom to top,
\* the background, the overlay when enabled, the narrated segments in
\* chronological order and the newscaster last when enabled, and nothing else
C15_OnlyNarratedBetweenLayers ==
    LayersAdded =>
       /\ clips[1].kind = "background"
       /\ settings.enable_overlay => clips[2].kind = "overlay"
       /\ settings.enable_newscaster => Last(clips).kind = "newscaster"
       /\ \A i \in 1..Len(clips) :
             (LayersBelow < i /\ i <= TimelineEnd) <=> clips[i].kind \in NarratedKinds
       /\ \A i, j \in (LayersBelow + 1)..TimelineEnd :
             i < j => clips[i].start < clips[j].start

\* C15, amended: the list given to CompositeVideoClip is, bottom to top, the
\* background, the overlay when enabled, the narrated segments in
\* chronological order with the static clip at its place among them, the
\* newscaster last when enabled; whatever the toggles, no narrated segment
\* lies under the background or the overlay and none lies over the newscaster
C15_LayerOrder ==
    LayersAdded =>
       /\ clips[1].kind = "background"
       /\ settings.enable_overlay => clips[2].kind = "overlay"
       /\ settings.enable_newscaster => Last(clips).kind = "newscaster"
       /\ \A i \in 1..Len(clips) :
             (LayersBelow < i /\ i <= TimelineEnd) <=> clips[i].kind \in TimelineKinds
       /\ \A i, j \in (LayersBelow + 1)..TimelineEnd :
             i < j => clips[i].start < clips[j].start
       /\ \E i \in 1..Len(clips) : clips[i].kind = "title"

\* all three layers around a title, a selftext line, the static clip and a
\* comment
C15_Witness ==
    /\ LayersAdded
    /\ settings.enable_overlay /\ settings.enable_newscaster
    /\ settings.enable_background
    /\ Len(clips) = 7
    /\ OfKind("static") # <<>>
    /\ OfKind("comment_image") # <<>>

-----------------------------------------------------------------------------
(* Audio files.                                                            *)

\* the file name a path spells
FileName(audio_path) == ToString(audio_path)

\* C16: within one run every narration is synthesized to its own audio
\* file: no two calls of speech.create_audio are given the same path
C16_DistinctAudioPaths ==
    \A i, j \in 1..Len(synthesized) :
       i < j => FileName(synthesized[i]) # FileName(synthesized[j])

-----------------------------------------------------------------------------
(* The uploaded flag.                                                      *)

\* some row of the ledger has its uploaded flag set by this step
FlagSet ==
    \E k \in 1..Len(ledger') :
       /\ ledger'[k].uploaded = "true"
       /\ k > Len(ledger) \/ ledger[k].uploaded # "true"

\* the upload was not tried, or youtube.publish raised
NotUploadedEvents ==
    {"upload-skipped", "no-credentials", "already-uploaded", "publish-failed"}

\* C17: the uploaded flag is set only by the step in which youtube.publish
\* returns, and only with enable_compilation and enable_upload on and both
\* credential files there; a publish that fails or is skipped leaves the
\* ledger as it was, so the row of the run still says not uploaded
C17_FlagOnlyAfterPublish ==
    /\ [][FlagSet =>
             /\ published' = published + 1
             /\ Last(log').event = "published"
             /\ pc = "upload"
             /\ settings.enable_compilation /\ settings.enable_upload
             /\ env.client_secret /\ env.credentials_storage
             /\ IsUploaded(ledger', post.id)]_vars
    /\ [][Records(NotUploadedEvents) => ledger' = ledger]_vars
    /\ [](RowWritten /\ ~HasEvent("published") => ThisRow.uploaded = "false")

\* a finished run whose publish returned: the row of the run and the row of
\* an earlier run that had not been uploaded both say uploaded
C17_Witness ==
    /\ pc = "done"
    /\ HasEvent("published")
    /\ published = 1
    /\ Len(ledger) = 2
    /\ \A k \in 1..Len(ledger) : ledger[k].uploaded = "true"

=============================================================================
